---- MODULE Spec2Model ----
(***************************************************************************)
(* Model of migrator.js: the one-shot duplicate-team resolver that runs    *)
(* in the mongo shell against the teams collection of database fh-aaa.     *)
(*                                                                         *)
(* JavaScript strings are sequences of one-character strings, so that      *)
(* join and the /\s/g replacement are computed character by character.     *)
(* A JavaScript value that may be undefined is an option: <<>> is          *)
(* undefined and <<v>> is the value v.                                     *)
(***************************************************************************)
EXTENDS Integers, Sequences, FiniteSets, TLC

VARIABLES
    domain,           \* global `domain`: option of a string
    dryrun,           \* global `dryrun`: option of a boolean
    dbName,           \* what db.getName() returns
    teams,            \* the teams collection: sequence of team documents
    initial,          \* the teams collection as it was before the run
    dryrunArg,        \* `dryrun` as passed on the command line
    pc,               \* position of main(): "start", "loop", "done", "threw"
    relevantResults,  \* main's relevantResults array
    i,                \* main's loop index (1-based)
    calls,            \* the calls made on db.teams, in order
    trace,            \* per processed group: what was fetched and decided
    ret               \* return value of a direct createTeamCode call

vars == <<domain, dryrun, dbName, teams, initial, dryrunArg, pc,
          relevantResults, i, calls, trace, ret>>

----------------------------------------------------------------------------
(* Bounds of the model *)

\* largest number of documents in the teams collection
MaxTeams == 4

----------------------------------------------------------------------------
(* JavaScript values *)

Undefined == <<>>

Some(v) == <<v>>

\* the characters matched by the regular expression class \s (the ASCII ones)
WhitespaceChars == {" ", "\t", "\n", "\r", "\f"}

\* String.prototype.replace(/\s/g, "_")
replaceWhitespace_firstOnly(s) ==
    LET ws == {k \in 1..Len(s) : s[k] \in WhitespaceChars}
    IN  [k \in 1..Len(s) |->
            IF ws # {} /\ k = CHOOSE m \in ws : \A n \in ws : m <= n
            THEN "_" ELSE s[k]]

replaceWhitespace(s) ==
    [k \in 1..Len(s) |-> IF s[k] \in WhitespaceChars THEN "_" ELSE s[k]]

\* Array.prototype.join(sep) on an array of strings
RECURSIVE join(_, _)
join(arr, sep) ==
    IF arr = <<>> THEN <<>>
    ELSE IF Len(arr) = 1 THEN arr[1]
    ELSE arr[1] \o sep \o join(Tail(arr), sep)

\* Object.keys(boh): the keys in insertion order
ObjectKeys(boh) == [k \in 1..Len(boh) |-> boh[k].key]

\* boh[key], for key an option (boh[undefined] is undefined)
Lookup(boh, key) ==
    IF key = Undefined \/ \A k \in 1..Len(boh) : boh[k].key # key[1]
    THEN Undefined
    ELSE Some(boh[CHOOSE k \in 1..Len(boh) : boh[k].key = key[1]].value)

\* hierarchy.sort(function (a, b) { return b.length - a.length; }):
\* a stable insertion sort, by length, longest first (the shell's engines
\* sort arrays this short stably, so of two keys of the same length the one
\* that Object.keys lists first stays first)
RECURSIVE insertByLength(_, _)
insertByLength(sorted, a) ==
    IF sorted = <<>> THEN <<a>>
    ELSE IF Len(Head(sorted)) - Len(a) < 0
         THEN <<a>> \o sorted
         ELSE <<Head(sorted)>> \o insertByLength(Tail(sorted), a)

RECURSIVE sortByLengthDesc(_)
sortByLengthDesc(arr) ==
    IF arr = <<>> THEN <<>>
    ELSE insertByLength(sortByLengthDesc(SubSeq(arr, 1, Len(arr) - 1)),
                        arr[Len(arr)])

----------------------------------------------------------------------------
(* The functions of migrator.js *)

\* getLowestLevel(team): the first element of the keys sorted longest first
getLowestLevel(team) ==
    LET hierarchy == ObjectKeys(team.business_objects)
        sorted == sortByLengthDesc(hierarchy)
    IN  IF sorted = <<>> THEN Undefined ELSE Some(sorted[1])

\* createTeamCode throws a TypeError when lowestLevelBOs is undefined
createTeamCodeThrows(team) ==
    Lookup(team.business_objects, getLowestLevel(team)) = Undefined

createTeamCode_noGlobalFlag(team) ==
    LET lowestLevel == getLowestLevel(team)
        lowestLevelBOs == Lookup(team.business_objects, lowestLevel)[1]
        guidString == join(lowestLevelBOs, <<"-">>)
    IN  replaceWhitespace_firstOnly(
            join(<<domain[1], guidString, team.name>>, <<"-">>))

\* createTeamCode(team), reading the global `domain`
createTeamCode(team) ==
    LET lowestLevel == getLowestLevel(team)
        lowestLevelBOs == Lookup(team.business_objects, lowestLevel)[1]
        guidString == join(lowestLevelBOs, <<"-">>)
    IN  replaceWhitespace(join(<<domain[1], guidString, team.name>>, <<"-">>))

\* checkDups throws a TypeError when dups[0] or dups[1] is undefined
checkDupsThrows(dups) == Len(dups) < 2

\* checkDups(dups): dups[0] is dups[1] here, sequences being 1-based
checkDups(dups) ==
    LET fa == dups[1]
        fb == dups[2]
        lowestA == getLowestLevel(fa)
        lowestB == getLowestLevel(fb)
    IN  IF lowestA = lowestB
        THEN IF Len(fa.users) # 0 /\ Len(fb.users) # 0 THEN FALSE ELSE FALSE
        ELSE IF Len(fa.users) # 0 /\ Len(fb.users) # 0 THEN TRUE ELSE FALSE

----------------------------------------------------------------------------
(* The mongo shell's db and db.teams *)

\* db.getName() !== "fh-aaa"
wrongDatabase_never(name) == FALSE

wrongDatabase(name) == name # "fh-aaa"

\* if (typeof dryrun === "undefined") { dryrun = true; }
defaultDryrun_toLive(d) == IF d = Undefined THEN Some(FALSE) ELSE d

defaultDryrun(d) == IF d = Undefined THEN Some(TRUE) ELSE d

\* all the orders in which the elements of a finite set can be returned
RECURSIVE Orders(_)
Orders(S) ==
    IF S = {} THEN {<<>>}
    ELSE UNION {{<<x>> \o rest : rest \in Orders(S \ {x})} : x \in S}

\* db.teams.aggregate([{"$group": {_id: "$code", count: {$sum: 1}}}]):
\* one document per distinct code, with the number of documents holding it
aggregate(coll) ==
    {[_id |-> c,
      count |-> Cardinality({k \in 1..Len(coll) : coll[k].code = c})] :
        c \in {coll[k].code : k \in 1..Len(coll)}}

\* the loop that keeps the groups with count > 1
relevantOf(result) == SelectSeq(result, LAMBDA r : r.count > 1)

\* team.defaultTeam of a group document: a property it does not have
defaultTeamOf(team) ==
    IF "defaultTeam" \in DOMAIN team THEN team.defaultTeam ELSE FALSE

\* db.teams.find({defaultTeam: false, code: code}): the matching documents
find(coll, code) ==
    {coll[k] : k \in {m \in 1..Len(coll) :
                        coll[m].defaultTeam = FALSE /\ coll[m].code = code}}

\* var teamToMigrate = dups[0];
teamToMigrate_last(dups) == dups[Len(dups)]

teamToMigrateOf(dups) == dups[1]

\* db.teams.update({_id: id}, document): replaces the document with that _id
update_everyTeam(coll, id, document) ==
    [k \in 1..Len(coll) |-> [coll[k] EXCEPT !.code = document.code]]

update(coll, id, document) ==
    [k \in 1..Len(coll) |-> IF coll[k]._id = id THEN document ELSE coll[k]]

Call(op, group, id) == [op |-> op, group |-> group, id |-> id]

----------------------------------------------------------------------------
(* The datasets and parameters the run is started on *)

DomainD == <<"d">>

NameT == <<"T">>

G1 == <<"g", "1">>

G2 == <<"g", "2">>

\* a code that is already in the new format: createTeamCode of a team named
\* T whose lowest-level business object is g1, in domain d
CodeN == <<"d", "-", "g", "1", "-", "T">>

CodeY == <<"Y">>

Codes == <<CodeN, CodeY>>

\* business-objects mappings, as sequences of key/value pairs in key order
BOEmpty == <<>>

BOLevelA == <<[key |-> <<"a">>, value |-> <<G1>>]>>

BOLevelAB == <<[key |-> <<"a">>, value |-> <<G1>>],
               [key |-> <<"a", "b">>, value |-> <<G2>>]>>

BOShapes == <<BOEmpty, BOLevelA, BOLevelAB>>

\* users arrays: without and with a user reference
UserLists == <<(<<>>), (<< <<"u", "1">> >>)>>

Team(id, name, code, defaultTeam, bo, users) ==
    [_id |-> id, name |-> name, code |-> code, defaultTeam |-> defaultTeam,
     business_objects |-> bo, users |-> users]

\* The team documents a dataset is made of, numbered from 0: every
\* non-default team of the codes, mappings and users arrays above, then one
\* default team per code.
NumNonDefault == Len(Codes) * Len(BOShapes) * Len(UserLists)

NumShapes == NumNonDefault + Len(Codes)

ShapeTeam(id, k) ==
    IF k < NumNonDefault
    THEN Team(id, NameT,
              Codes[(k % Len(Codes)) + 1],
              FALSE,
              BOShapes[((k \div Len(Codes)) % Len(BOShapes)) + 1],
              UserLists[(k \div (Len(Codes) * Len(BOShapes))) + 1])
    ELSE Team(id, NameT, Codes[(k - NumNonDefault) + 1], TRUE,
              BOLevelA, UserLists[2])

\* the non-decreasing sequences of n shape numbers from lo on: a dataset is
\* a multiset of documents, its _ids being 1..n
RECURSIVE SortedShapes(_, _)
SortedShapes(n, lo) ==
    IF n = 0 THEN {<<>>}
    ELSE UNION {{<<k>> \o rest : rest \in SortedShapes(n - 1, k)} :
                    k \in lo..(NumShapes - 1)}

Datasets ==
    UNION {{[id \in 1..n |-> ShapeTeam(id, ks[id])] :
                ks \in SortedShapes(n, 0)} : n \in 0..MaxTeams}

Init ==
    /\ domain \in {Undefined, Some(DomainD)}
    /\ dryrun \in {Undefined, Some(TRUE), Some(FALSE)}
    /\ dbName \in {"fh-aaa", "test"}
    /\ teams \in Datasets
    /\ initial = teams
    /\ dryrunArg = dryrun
    /\ pc = "start"
    /\ relevantResults = <<>>
    /\ i = 1
    /\ calls = <<>>
    /\ trace = <<>>
    /\ ret = Undefined

----------------------------------------------------------------------------
(* main() *)

\* throw new Error("Domain must be defined")
MainThrowsNoDomain ==
    /\ pc = "start"
    /\ domain = Undefined
    /\ pc' = "threw"
    /\ UNCHANGED <<domain, dryrun, dbName, teams, initial, dryrunArg,
                   relevantResults, i, calls, trace, ret>>

\* throw new Error("Script must be run on fh-aaa database")
MainThrowsWrongDatabase ==
    /\ pc = "start"
    /\ domain # Undefined
    /\ wrongDatabase(dbName)
    /\ dryrun' = defaultDryrun(dryrun)
    /\ pc' = "threw"
    /\ UNCHANGED <<domain, dbName, teams, initial, dryrunArg,
                   relevantResults, i, calls, trace, ret>>

\* the aggregation finds no group with count > 1: "All good, nothing to do"
MainNothingToDo ==
    /\ pc = "start"
    /\ domain # Undefined
    /\ ~wrongDatabase(dbName)
    /\ dryrun' = defaultDryrun(dryrun)
    /\ \A r \in aggregate(teams) : ~(r.count > 1)
    /\ calls' = Append(calls, Call("aggregate", <<>>, 0))
    /\ pc' = "done"
    /\ UNCHANGED <<domain, dbName, teams, initial, dryrunArg,
                   relevantResults, i, trace, ret>>

\* the aggregation finds duplicates; they are stored in the order returned
MainFindsDuplicates ==
    /\ pc = "start"
    /\ domain # Undefined
    /\ ~wrongDatabase(dbName)
    /\ dryrun' = defaultDryrun(dryrun)
    /\ \E result \in Orders(aggregate(teams)) :
          /\ relevantOf(result) # <<>>
          /\ relevantResults' = relevantOf(result)
    /\ calls' = Append(calls, Call("aggregate", <<>>, 0))
    /\ i' = 1
    /\ pc' = "loop"
    /\ UNCHANGED <<domain, dbName, teams, initial, dryrunArg, trace, ret>>

Outcome(group, dups, result, newCode, updated) ==
    [group |-> group, dups |-> dups, result |-> result, newCode |-> newCode,
     updated |-> updated]

\* one iteration of the loop over relevantResults
ProcessGroup ==
    /\ pc = "loop"
    /\ LET team == relevantResults[i]
           next == IF i + 1 > Len(relevantResults) THEN "done" ELSE "loop"
       IN  IF defaultTeamOf(team)
           THEN /\ trace' = Append(trace,
                        Outcome(team._id, <<>>, "continue", Undefined, 0))
                /\ i' = i + 1
                /\ pc' = next
                /\ UNCHANGED <<teams, calls>>
           ELSE \E dups \in Orders(find(teams, team._id)) :
                LET found == Append(calls, Call("find", team._id, 0))
                IN  IF checkDupsThrows(dups)
                    THEN /\ calls' = found
                         /\ trace' = Append(trace,
                                Outcome(team._id, dups, "threw", Undefined, 0))
                         /\ pc' = "threw"
                         /\ UNCHANGED <<teams, i>>
                    ELSE IF ~checkDups(dups)
                    THEN /\ calls' = found
                         /\ trace' = Append(trace,
                                Outcome(team._id, dups, "false", Undefined, 0))
                         /\ i' = i + 1
                         /\ pc' = next
                         /\ UNCHANGED teams
                    ELSE LET teamToMigrate == teamToMigrateOf(dups)
                         IN  IF createTeamCodeThrows(teamToMigrate)
                             THEN /\ calls' = found
                                  /\ trace' = Append(trace,
                                         Outcome(team._id, dups, "threw",
                                                 Undefined, 0))
                                  /\ pc' = "threw"
                                  /\ UNCHANGED <<teams, i>>
                             ELSE LET newCode == createTeamCode(teamToMigrate)
                                      document == [teamToMigrate
                                                     EXCEPT !.code = newCode]
                                  IN  /\ IF dryrun[1]
                                         THEN /\ calls' = found
                                              /\ trace' = Append(trace,
                                                     Outcome(team._id, dups, "true",
                                                             Some(newCode), 0))
                                              /\ UNCHANGED teams
                                         ELSE /\ teams' = update(teams,
                                                     teamToMigrate._id, document)
                                              /\ calls' = Append(found,
                                                     Call("update", team._id,
                                                          teamToMigrate._id))
                                              /\ trace' = Append(trace,
                                                     Outcome(team._id, dups, "true",
                                                             Some(newCode),
                                                             teamToMigrate._id))
                                      /\ i' = i + 1
                                      /\ pc' = next
    /\ UNCHANGED <<domain, dryrun, dbName, initial, dryrunArg,
                   relevantResults, ret>>

Next ==
    \/ MainThrowsNoDomain
    \/ MainThrowsWrongDatabase
    \/ MainNothingToDo
    \/ MainFindsDuplicates
    \/ ProcessGroup

Spec == Init /\ [][Next]_vars

----------------------------------------------------------------------------
(* createTeamCode called on its own, on teams and domains with whitespace *)

DomainAcme == <<"a", "c", "m", "e">>

DomainWithSpace == <<"m", "y", " ", "d">>

NameTestTeam == <<"T", "e", "s", "t", " ", "T", "e", "a", "m">>

NameTwoBlanks == <<"A", "\t", "B", " ", "C">>

NameBlankEnds == <<" ", "x", "\n">>

GuidWithSpace == <<"g", " ", "3">>

\* two levels, the deeper one holding g1 and g2
BOTwoGuids == <<[key |-> <<"o", "r", "g">>, value |-> <<G2>>],
                [key |-> <<"t", "e", "a", "m", "s">>, value |-> <<G1, G2>>]>>

\* two keys of the same length
BOTie == <<[key |-> <<"a", "b">>, value |-> <<G1>>],
           [key |-> <<"c", "d">>, value |-> <<G2>>]>>

\* the deeper level listed first, and holding a guid with a blank
BODeepFirst == <<[key |-> <<"a", "b", "c">>, value |-> <<GuidWithSpace, G1>>],
                 [key |-> <<"a">>, value |-> <<G2>>]>>

\* a level without business objects
BONoGuids == <<[key |-> <<"a">>, value |-> <<>>]>>

CodeDomains == {DomainD, DomainAcme, DomainWithSpace}

CodeNames == {NameT, NameTestTeam, NameTwoBlanks, NameBlankEnds}

CodeBOs == {BOEmpty, BOLevelA, BOLevelAB, BOTwoGuids, BOTie, BODeepFirst,
            BONoGuids}

InitCode ==
    /\ domain \in {Some(d) : d \in CodeDomains}
    /\ dryrun = Some(TRUE)
    /\ dbName = "fh-aaa"
    /\ teams \in {<<Team(1, n, CodeY, FALSE, bo, UserLists[2])>> :
                     n \in CodeNames, bo \in CodeBOs}
    /\ initial = teams
    /\ dryrunArg = dryrun
    /\ pc = "call"
    /\ relevantResults = <<>>
    /\ i = 1
    /\ calls = <<>>
    /\ trace = <<>>
    /\ ret = Undefined

\* var newCode = createTeamCode(teamToMigrate);
CallCreateTeamCode ==
    /\ pc = "call"
    /\ IF createTeamCodeThrows(teams[1])
       THEN /\ pc' = "threw"
            /\ UNCHANGED ret
       ELSE /\ ret' = Some(createTeamCode(teams[1]))
            /\ pc' = "returned"
    /\ UNCHANGED <<domain, dryrun, dbName, teams, initial, dryrunArg,
                   relevantResults, i, calls, trace>>

NextCode == CallCreateTeamCode

SpecCode == InitCode /\ [][NextCode]_vars

----------------------------------------------------------------------------
(* Claims *)

\* the business objects of the first of the longest keys of a mapping
LongestKeyGuids(boh) ==
    LET at == CHOOSE k \in 1..Len(boh) :
                /\ \A m \in 1..Len(boh) : Len(boh[m].key) <= Len(boh[k].key)
                /\ \A m \in 1..(k - 1) : Len(boh[m].key) < Len(boh[k].key)
    IN  boh[at].value

\* the guids each followed by a dash
RECURSIVE DashAfterEach(_)
DashAfterEach(ids) ==
    IF ids = <<>> THEN <<>>
    ELSE Head(ids) \o <<"-">> \o DashAfterEach(Tail(ids))

\* domain + "-" + the dash-joined guids + "-" + name, before any replacement
RawCode(d, ids, name) ==
    IF ids = <<>> THEN d \o <<"-", "-">> \o name
    ELSE d \o <<"-">> \o DashAfterEach(ids) \o name

ExampleCode ==
    <<"a", "c", "m", "e", "-", "g", "1", "-", "g", "2", "-",
      "T", "e", "s", "t", "_", "T", "e", "a", "m">>

\* C9: whenever createTeamCode returns, its result has no whitespace
\* character and is, character by character, the domain, a dash, the
\* dash-joined business objects of the team's longest business-objects key, a
\* dash and the name, with every whitespace character replaced by "_"; for
\* domain acme, name "Test Team" and lowest-level objects g1, g2 it is
\* acme-g1-g2-Test_Team.
C9_CodeIsWhitespaceFreeJoin ==
    pc = "returned" =>
        LET team == teams[1]
            code == ret[1]
            raw == RawCode(domain[1], LongestKeyGuids(team.business_objects),
                           team.name)
        IN  /\ \A k \in 1..Len(code) : code[k] \notin WhitespaceChars
            /\ Len(code) = Len(raw)
            /\ \A k \in 1..Len(raw) :
                  code[k] = IF raw[k] \in WhitespaceChars THEN "_" ELSE raw[k]
            /\ (domain[1] = DomainAcme /\ team.name = NameTestTeam
                  /\ team.business_objects = BOTwoGuids) => code = ExampleCode

\* C9 witness: the code of the example has been computed
C9_Witness ==
    /\ pc = "returned"
    /\ domain = Some(DomainAcme)
    /\ teams[1].name = NameTestTeam
    /\ teams[1].business_objects = BOTwoGuids
    /\ ret = Some(ExampleCode)

----------------------------------------------------------------------------
(* Claims about a run of main() *)

Updates == {k \in 1..Len(calls) : calls[k].op = "update"}

\* the documents that held code c before the run
InitialGroup(c) == {k \in 1..Len(initial) : initial[k].code = c}

\* the codes held by more than one document before the run
InitialDuplicates ==
    {c \in {initial[k].code : k \in 1..Len(initial)} :
        Cardinality(InitialGroup(c)) > 1}

\* the lowest hierarchy level of a team: its longest business-objects key,
\* undefined when it has none
LevelLabel(team) ==
    LET boh == team.business_objects
    IN  IF boh = <<>> THEN Undefined
        ELSE Some(boh[CHOOSE k \in 1..Len(boh) :
                /\ \A m \in 1..Len(boh) : Len(boh[m].key) <= Len(boh[k].key)
                /\ \A m \in 1..(k - 1) : Len(boh[m].key) < Len(boh[k].key)].key)

\* the decision table: different levels and both records have users
Migratable(a, b) ==
    /\ LevelLabel(a) # LevelLabel(b)
    /\ a.users # <<>>
    /\ b.users # <<>>

\* C1: when dryrun is passed as true or not passed, no update call is ever
\* made and the stored team documents stay those of before the run.
C1_SimulationNeverUpdates ==
    dryrunArg \in {Undefined, Some(TRUE)} =>
        /\ Updates = {}
        /\ teams = initial

\* C1 witness: a run without dryrun has finished after classifying a group
\* as migratable and computing its new code.
C1_Witness ==
    /\ dryrunArg = Undefined
    /\ pc = "done"
    /\ \E k \in 1..Len(trace) :
          /\ trace[k].result = "true"
          /\ trace[k].newCode # Undefined
          /\ trace[k].newCode # Some(trace[k].group)

\* C2: without a domain, or on a database other than fh-aaa, main() ends by
\* throwing before any aggregate, find or update call: nothing is read and
\* nothing is modified.
C2_PreconditionsAbortBeforeAnyCall ==
    (domain = Undefined \/ dbName # "fh-aaa") =>
        /\ pc \in {"start", "threw"}
        /\ calls = <<>>
        /\ teams = initial
        /\ trace = <<>>

\* C2 witness: main() has thrown on the wrong database, on a dataset that
\* holds duplicates and with a domain and live mode.
C2_Witness ==
    /\ pc = "threw"
    /\ domain # Undefined
    /\ dbName # "fh-aaa"
    /\ dryrunArg = Some(FALSE)
    /\ InitialDuplicates # {}

\* C8: in a live run at most one update is made per duplicate group; it is
\* made on the _id of the first document fetched for that group; a stored
\* document differs from what it was before the run in its code only, and
\* only if an update was made on its _id; the _ids are those of before.
C8_LiveRunFrame ==
    dryrunArg = Some(FALSE) =>
        /\ \A k \in Updates, m \in Updates :
              calls[k].group = calls[m].group => k = m
        /\ \A k \in Updates :
              \E e \in 1..Len(trace) :
                  /\ trace[e].group = calls[k].group
                  /\ trace[e].result = "true"
                  /\ calls[k].id = trace[e].dups[1]._id
                  /\ Cardinality({j \in 1..Len(trace[e].dups) :
                        trace[e].dups[j]._id = calls[k].id}) = 1
        /\ Len(teams) = Len(initial)
        /\ \A k \in 1..Len(teams) :
              /\ teams[k] = [initial[k] EXCEPT !.code = teams[k].code]
              /\ teams[k] # initial[k] =>
                    \E u \in Updates : calls[u].id = teams[k]._id

\* C8 witness: a live run has finished, two groups were updated, and the
\* codes of exactly the two updated documents differ from before.
C8_Witness ==
    /\ dryrunArg = Some(FALSE)
    /\ pc = "done"
    /\ Cardinality(Updates) = 2
    /\ Cardinality({k \in 1..Len(teams) : teams[k].code # initial[k].code}) = 2

\* the document stored under an _id
Stored(id) == teams[CHOOSE k \in 1..Len(teams) : teams[k]._id = id]

\* a group of exactly two documents before the run, neither a default team
InitialPair(c) ==
    /\ Cardinality(InitialGroup(c)) = 2
    /\ \A k \in InitialGroup(c) : ~initial[k].defaultTeam

\* C3: for a duplicate group of two records that have the same lowest level,
\* or of which one has no users, checkDups returns false and neither
\* record's code is changed by the run, be it live or not.
C3_UnmigratablePairKeepsItsCodes ==
    \A c \in InitialDuplicates :
        (/\ InitialPair(c)
         /\ \E a \in InitialGroup(c), b \in InitialGroup(c) :
               a # b /\ ~Migratable(initial[a], initial[b]))
        => /\ \A e \in 1..Len(trace) :
                 (/\ trace[e].group = c
                  /\ Len(trace[e].dups) >= 2
                  /\ {trace[e].dups[1]._id, trace[e].dups[2]._id} =
                         {initial[k]._id : k \in InitialGroup(c)})
                 => trace[e].result = "false"
           /\ \A k \in InitialGroup(c) : teams[k].code = initial[k].code

\* C4: for a duplicate group of two records with business objects, whose
\* lowest levels differ and that both have users, the first fetched record
\* is selected and gets a new code that is not empty and is not its
\* original code.
C4_MigratablePairGetsDistinctCode ==
    \A e \in 1..Len(trace) :
        LET dups == trace[e].dups
        IN  (/\ InitialPair(trace[e].group)
             /\ Len(dups) = 2
             /\ {dups[1], dups[2]} =
                    {initial[k] : k \in InitialGroup(trace[e].group)}
             /\ LevelLabel(dups[1]) # Undefined
             /\ LevelLabel(dups[2]) # Undefined
             /\ Migratable(dups[1], dups[2]))
            => /\ trace[e].result = "true"
               /\ trace[e].newCode # Undefined
               /\ trace[e].newCode # Some(<<>>)
               /\ trace[e].newCode # Some(dups[1].code)

\* C5: a duplicate group of three or more records sharing one code is
\* ignored: no record of it is classified as migratable and no record of it
\* has its code changed.
C5_GroupOfThreeIsIgnored ==
    \A e \in 1..Len(trace) :
        Cardinality(InitialGroup(trace[e].group)) >= 3 =>
            /\ trace[e].result # "true"
            /\ \A k \in InitialGroup(trace[e].group) :
                  teams[k].code = initial[k].code

\* C5 as amended: a group of which three or more records are fetched is
\* classified on its first two fetched records alone, as a pair would be
\* (not migratable exactly when their lowest levels are the same or one of
\* them has no users); an update, if made, is made on the first fetched
\* record, and every record fetched after the first stays as it was fetched.
C5_GroupOfThreeIsTreatedAsItsFirstPair ==
    \A e \in 1..Len(trace) :
        LET dups == trace[e].dups
        IN  Len(dups) >= 3 =>
            /\ (trace[e].result = "false") = ~Migratable(dups[1], dups[2])
            /\ trace[e].result = "threw" => dups[1].business_objects = <<>>
            /\ trace[e].updated \in {0, dups[1]._id}
            /\ \A j \in 2..Len(dups) : Stored(dups[j]._id) = dups[j]

\* C5 witness: a live run fetched three records for a group, classified it
\* as migratable and updated the first of them.
C5_Witness ==
    \E e \in 1..Len(trace) :
        /\ Len(trace[e].dups) >= 3
        /\ trace[e].result = "true"
        /\ trace[e].updated = trace[e].dups[1]._id
        /\ Stored(trace[e].updated).code # trace[e].group

\* C6: a duplicate group whose code is held by a default team is skipped
\* entirely (no find is made for it and it is not classified), and no
\* default team is changed.
C6_DefaultTeamGroupsAreSkipped ==
    LET defaultCodes ==
            {initial[k].code : k \in {m \in 1..Len(initial) :
                                        initial[m].defaultTeam}}
    IN  /\ \A k \in 1..Len(calls) :
              calls[k].op = "find" => calls[k].group \notin defaultCodes
        /\ \A e \in 1..Len(trace) :
              trace[e].group \in defaultCodes => trace[e].result = "continue"
        /\ \A k \in 1..Len(initial) :
              initial[k].defaultTeam => teams[k] = initial[k]

\* C7: once the domain is given and the database is fh-aaa, the run never
\* ends by throwing: every group is processed and main() returns.
C7_RunNeverThrowsAfterPreconditions ==
    (domain # Undefined /\ dbName = "fh-aaa") => pc # "threw"

\* C10: after a live run on a dataset whose duplicate groups are all pairs
\* of non-default records with business objects, different lowest levels
\* and users, no two non-default records share a code.
C10_LiveRunRestoresUniqueness ==
    (/\ pc = "done"
     /\ dryrunArg = Some(FALSE)
     /\ \A c \in InitialDuplicates :
           /\ InitialPair(c)
           /\ \A a \in InitialGroup(c), b \in InitialGroup(c) :
                 a # b => /\ Migratable(initial[a], initial[b])
                          /\ LevelLabel(initial[a]) # Undefined)
    => \A a \in 1..Len(teams), b \in 1..Len(teams) :
          (a # b /\ ~teams[a].defaultTeam /\ ~teams[b].defaultTeam)
              => teams[a].code # teams[b].code

====
